---- MODULE Spec2Model ----
(***************************************************************************)
(* Student API (student-api/app/routes.py): CRUD handlers over a           *)
(* relational store, wrapped with a best-effort Redis read-through cache   *)
(* and request metrics.                                                    *)
(*                                                                         *)
(* Conventions.  A Python optional (None or a value) is a sequence of      *)
(* length 0 or 1: <<>> is None, <<v>> is v.  A JSON object with optional   *)
(* keys is a record whose fields are such sequences (<<>>: key absent).    *)
(***************************************************************************)
EXTENDS Integers, Sequences, FiniteSets, TLC

VARIABLES store, cache, redis, REQUEST_COUNT, REQUEST_LATENCY, last, nreq,
          procs, metrics, metrics_lock, conns, arrivals, completed

vars == <<store, cache, redis, REQUEST_COUNT, REQUEST_LATENCY, last, nreq,
          procs, metrics, metrics_lock, conns, arrivals, completed>>

(* ---------------------------- bounds ---------------------------------- *)
MaxId == 2          \* rows the store may hold (ids 1..MaxId)
MaxReqs == 2        \* requests served in one behaviour of Spec
NumProcs == 2       \* requests in flight at once in SpecConc and SpecMetrics
MaxConcReqs == 3    \* requests started in one behaviour of SpecConc
MaxExtra == 3       \* requests started in one behaviour of SpecMetrics
Prefill == 998      \* samples already in the duration buffer when SpecMetrics starts

Ids == 1..MaxId
Procs == 1..NumProcs
None == <<>>
Some(v) == <<v>>

(* ---------------------------- value domains --------------------------- *)
Names == {"Ada", "Bob"}
Emails == {"", "ada@x.com"}
Ages == {30}
Grades == {"A"}
DbErrors == {"OperationalError", "IntegrityError"}
CacheOps == {"get", "setex", "keys", "delete", "ping"}

Opt(S) == {None} \cup {Some(v) : v \in S}

\* request.get_json(): None, or a dict with any subset of the four keys
Dicts == [name : Opt(Names), email : Opt(Emails), age : Opt(Ages), grade : Opt(Grades)]

(* ---------------------------- Student model --------------------------- *)
\* Student(name=..., email=..., age=...): grade is a column nobody sets
Student(name, email, age) ==
  [id |-> 0, name |-> name, email |-> email, age |-> age, grade |-> None]

\* Student.to_dict()
to_dict(s) ==
  [id |-> s.id, name |-> s.name, email |-> s.email, age |-> s.age, grade |-> s.grade]

RECURSIVE MaxIn(_)
MaxIn(S) == IF S = {} THEN 0
            ELSE LET x == CHOOSE y \in S : TRUE
                     m == MaxIn(S \ {x})
                 IN IF x > m THEN x ELSE m

Present(st) == {i \in DOMAIN st : st[i] # None}

\* primary key the store assigns on INSERT (integer rowid: largest id + 1)
NewId(st) == MaxIn(Present(st)) + 1

\* Student.query.get(id)
query_get(st, id) == IF id \in DOMAIN st THEN st[id] ELSE None

RECURSIVE RowsFrom(_, _)
RowsFrom(st, i) ==
  IF i > MaxIn(DOMAIN st) THEN <<>>
  ELSE (IF st[i] # None THEN <<st[i][1]>> ELSE <<>>) \o RowsFrom(st, i + 1)

\* Student.query.all(), in primary-key order
query_all(st) == RowsFrom(st, 1)

MapToDict(rows) == [i \in 1..Len(rows) |-> to_dict(rows[i])]

(* ---------------------------- JSON ------------------------------------ *)
\* json.dumps(data, default=str): a text that tags the top-level type
json_dumps(v) == [text |-> TRUE, kind |-> v.kind, items |-> v.items]
\* json.loads(text)
json_loads(t) == [kind |-> t.kind, items |-> t.items]

\* Python values the handlers cache: a list of dicts, or one dict
PyList(items) == [kind |-> "list", items |-> items]
PyDict(d) == [kind |-> "dict", items |-> <<d>>]
\* truthiness: an empty list is falsy, a non-empty list and a dict are truthy
Truthy(v) == IF v.kind = "list" THEN Len(v.items) > 0 ELSE TRUE

(* ---------------------------- cache keys ------------------------------ *)
AllKey == <<"students", "all">>               \* "students:all"
IdKey(id) == <<"students", "id", id>>         \* f"students:id:{student_id}"
Keys == {AllKey} \cup {IdKey(i) : i \in Ids}
StudentsPattern_ListOnly == <<"students", "all">>
StudentsPattern == <<"students", "*">>        \* 'students:*'
\* glob match of redis KEYS for a "prefix:*" pattern
Matches(key, pattern) ==
  /\ key[1] = pattern[1]
  /\ (pattern[2] = "*" \/ (Len(key) = Len(pattern) /\ key[2] = pattern[2]))

(* ---------------------------- metrics labels -------------------------- *)
Methods == {"GET", "POST", "PUT", "DELETE"}
Endpoints == {"/students", "/students/<id>", "/healthcheck"}
Statuses == {"200", "201", "400", "404", "500"}
Labels == [method : Methods, endpoint : Endpoints, status : Statuses]
Label(m, e, s) == [method |-> m, endpoint |-> e, status |-> s]
\* value of a labelled counter: a label never used has no child yet and counts 0
Count(count, l) == IF l \in DOMAIN count THEN count[l] ELSE 0
\* REQUEST_COUNT.labels(...).inc(): labels() creates the child on first use
Inc(count, l) == IF l \in DOMAIN count THEN [count EXCEPT ![l] = @ + 1]
                 ELSE (l :> 1) @@ count
\* REQUEST_LATENCY.labels(endpoint=...).observe(...): number of observations
Observe(lat, e) == [lat EXCEPT ![e] = @ + 1]

(* ---------------------------- responses ------------------------------- *)
Body(kind, items, text, detail) ==
  [kind |-> kind, items |-> items, text |-> text, detail |-> detail]
NoBody == Body("", <<>>, "", "")
\* jsonify(value) of a cached or freshly built list or dict
Json(v) == Body(v.kind, v.items, "", "")
\* jsonify({"error": msg})
ErrorBody(msg) == Body("error", <<>>, msg, "")

(* ---------------------------- requests -------------------------------- *)
\* One request being handled: its inputs (op, student_id, data, the cache
\* operations that raise while it runs, the exception the store raises if
\* any, app.redis), the handler's position and locals, its response, and the
\* number of "Cache ... failed" warnings it logged.
NewReq(op, id, data, fails, dberr, rds) ==
  [op |-> op, student_id |-> id, data |-> data, fails |-> fails, dberr |-> dberr,
   redis |-> rds, pc |-> "start", student |-> None, value |-> PyList(<<>>),
   keys |-> {}, status |-> 0, body |-> NoBody, warnings |-> 0]

\* current_app.logger.warning(f"Cache ... failed: {e}")
Warn(r) == [r EXCEPT !.warnings = @ + 1]

Ctx(w, r) == [w |-> w, r |-> r]

\* return <body>, <status> followed by the handler's finally block
Respond(w, r, count, endpoint, status, body) ==
  Ctx([w EXCEPT !.count = count, !.lat = Observe(w.lat, endpoint)],
      [r EXCEPT !.pc = "done", !.status = status, !.body = body])

(* ---------------------------- cache helpers --------------------------- *)
\* get_from_cache(key): value is None or Some(loaded value); raised tells
\* whether an exception leaves the helper (its try block lets none out)
get_from_cache_Reraise(w, r, key) ==
  IF r.redis
  THEN IF "get" \in r.fails
       THEN [value |-> None, r |-> Warn(r), raised |-> TRUE]   \* warns, then re-raises
       ELSE LET data == w.cache[key]
            IN [value |-> IF data # None THEN Some(json_loads(data[1].data)) ELSE None,
                r |-> r, raised |-> FALSE]
  ELSE [value |-> None, r |-> r, raised |-> FALSE]

get_from_cache(w, r, key) ==
  IF r.redis
  THEN IF "get" \in r.fails
       THEN [value |-> None, r |-> Warn(r), raised |-> FALSE]
       ELSE LET data == w.cache[key]               \* redis.get(key)
            IN [value |-> IF data # None THEN Some(json_loads(data[1].data)) ELSE None,
                r |-> r, raised |-> FALSE]
  ELSE [value |-> None, r |-> r, raised |-> FALSE]

\* set_cache(key, data, timeout)
set_cache(w, r, key, data, timeout) ==
  IF r.redis
  THEN IF "setex" \in r.fails
       THEN Ctx(w, Warn(r))
       ELSE Ctx([w EXCEPT !.cache = [w.cache EXCEPT ![key] =
                   Some([data |-> json_dumps(data), ttl |-> timeout])]], r)
  ELSE Ctx(w, r)

\* delete_cache_pattern(pattern): redis.keys then redis.delete, two calls;
\* control then returns to the handler ("respond")
delete_cache_pattern(w, r, pattern) ==
  IF r.pc = "dcp_keys"
  THEN IF ~r.redis
       THEN Ctx(w, [r EXCEPT !.pc = "respond"])
       ELSE IF "keys" \in r.fails
       THEN Ctx(w, [Warn(r) EXCEPT !.pc = "respond"])
       ELSE LET keys == {k \in DOMAIN w.cache : w.cache[k] # None /\ Matches(k, pattern)}
            IN IF keys # {}
               THEN Ctx(w, [r EXCEPT !.pc = "dcp_delete", !.keys = keys])
               ELSE Ctx(w, [r EXCEPT !.pc = "respond"])
  ELSE IF "delete" \in r.fails
       THEN Ctx(w, [Warn(r) EXCEPT !.pc = "respond"])
       ELSE Ctx([w EXCEPT !.cache = [k \in DOMAIN w.cache |->
                                      IF k \in r.keys THEN None ELSE w.cache[k]]],
                [r EXCEPT !.pc = "respond"])

(* ---------------------------- handlers -------------------------------- *)
\* Each handler is a step function on (world, request): one step per call
\* to the store or to the cache, so that steps of concurrent requests can
\* interleave.  w = [store, cache, count, lat].

\* `not data`: None or an empty dict
Falsy(data) ==
  \/ data = None
  \/ (data[1].name = None /\ data[1].email = None /\ data[1].age = None
      /\ data[1].grade = None)

BadRequestText == "400 Bad Request: Name and email are required"

\* POST /students
create_student(w, r) ==
  CASE r.pc = "start" ->
         IF Falsy(r.data) \/ r.data[1].email = None \/ r.data[1].name = None
         THEN \* line 93 counts the 400, raise BadRequest, line 114 counts it again
              LET c1 == Inc(w.count, Label("POST", "/students", "400"))
                  c2 == Inc(c1, Label("POST", "/students", "400"))
              IN Respond(w, r, c2, "/students", 400, ErrorBody(BadRequestText))
         ELSE IF r.dberr # None
         THEN Respond(w, r, Inc(w.count, Label("POST", "/students", "500")),
                      "/students", 500, ErrorBody("Internal Server Error"))
         ELSE LET d == r.data[1]
                  student == [Student(d.name[1], d.email[1], d.age)
                                EXCEPT !.id = NewId(w.store)]
              IN Ctx([w EXCEPT !.store = [w.store EXCEPT ![student.id] = Some(student)]],
                     [r EXCEPT !.pc = "dcp_keys", !.student = Some(student)])
    [] r.pc \in {"dcp_keys", "dcp_delete"} ->
         delete_cache_pattern(w, r, StudentsPattern)
    [] r.pc = "respond" ->
         Respond(w, r, Inc(w.count, Label("POST", "/students", "201")),
                 "/students", 201, Json(PyDict(to_dict(r.student[1]))))

\* GET /students
get_students(w, r) ==
  CASE r.pc = "start" ->
         LET got == get_from_cache(w, r, AllKey)
             cached_students == got.value
         IN IF got.raised                       \* except Exception, line 151
            THEN Respond(w, got.r, Inc(w.count, Label("GET", "/students", "500")),
                         "/students", 500, ErrorBody("Failed to fetch students"))
            ELSE IF cached_students # None /\ Truthy(cached_students[1])
            THEN Respond(w, got.r, Inc(w.count, Label("GET", "/students", "200")),
                         "/students", 200, Json(cached_students[1]))
            ELSE Ctx(w, [got.r EXCEPT !.pc = "query"])
    [] r.pc = "query" ->
         IF r.dberr # None
         THEN Respond(w, r, Inc(w.count, Label("GET", "/students", "500")),
                      "/students", 500, ErrorBody("Failed to fetch students"))
         ELSE Ctx(w, [r EXCEPT !.pc = "set_cache",
                               !.value = PyList(MapToDict(query_all(w.store)))])
    [] r.pc = "set_cache" ->
         LET c == set_cache(w, r, AllKey, r.value, 300)
         IN Respond(c.w, c.r, Inc(w.count, Label("GET", "/students", "200")),
                    "/students", 200, Json(r.value))

\* GET /students/<id>
get_student_CachesNotFound(w, r) ==
  CASE r.pc = "start" ->
         LET got == get_from_cache(w, r, IdKey(r.student_id))
             cached_student == got.value
         IN IF cached_student # None /\ Truthy(cached_student[1])
            THEN Respond(w, got.r, Inc(w.count, Label("GET", "/students/<id>", "200")),
                         "/students/<id>", 200, Json(cached_student[1]))
            ELSE Ctx(w, [got.r EXCEPT !.pc = "query"])
    [] r.pc = "query" ->
         IF r.dberr # None
         THEN Respond(w, r, Inc(w.count, Label("GET", "/students/<id>", "500")),
                      "/students/<id>", 500, ErrorBody("Failed to fetch student"))
         ELSE LET student == query_get(w.store, r.student_id)
              IN IF student = None
                 THEN LET c == set_cache(w, r, IdKey(r.student_id), PyList(<<>>), 300)
                      IN Respond(c.w, c.r, Inc(w.count, Label("GET", "/students/<id>", "404")),
                                 "/students/<id>", 404, ErrorBody("Student not found"))
                 ELSE Ctx(w, [r EXCEPT !.pc = "set_cache",
                                       !.value = PyDict(to_dict(student[1]))])
    [] r.pc = "set_cache" ->
         LET c == set_cache(w, r, IdKey(r.student_id), r.value, 300)
         IN Respond(c.w, c.r, Inc(w.count, Label("GET", "/students/<id>", "200")),
                    "/students/<id>", 200, Json(r.value))

get_student(w, r) ==
  CASE r.pc = "start" ->
         LET got == get_from_cache(w, r, IdKey(r.student_id))
             cached_student == got.value
         IN IF got.raised                       \* except Exception, line 187
            THEN Respond(w, got.r, Inc(w.count, Label("GET", "/students/<id>", "500")),
                         "/students/<id>", 500, ErrorBody("Failed to fetch student"))
            ELSE IF cached_student # None /\ Truthy(cached_student[1])
            THEN Respond(w, got.r, Inc(w.count, Label("GET", "/students/<id>", "200")),
                         "/students/<id>", 200, Json(cached_student[1]))
            ELSE Ctx(w, [got.r EXCEPT !.pc = "query"])
    [] r.pc = "query" ->
         IF r.dberr # None
         THEN Respond(w, r, Inc(w.count, Label("GET", "/students/<id>", "500")),
                      "/students/<id>", 500, ErrorBody("Failed to fetch student"))
         ELSE LET student == query_get(w.store, r.student_id)
              IN IF student = None
                 THEN Respond(w, r, Inc(w.count, Label("GET", "/students/<id>", "404")),
                              "/students/<id>", 404, ErrorBody("Student not found"))
                 ELSE Ctx(w, [r EXCEPT !.pc = "set_cache",
                                       !.value = PyDict(to_dict(student[1]))])
    [] r.pc = "set_cache" ->
         LET c == set_cache(w, r, IdKey(r.student_id), r.value, 300)
         IN Respond(c.w, c.r, Inc(w.count, Label("GET", "/students/<id>", "200")),
                    "/students/<id>", 200, Json(r.value))

\* the assignments of lines 208-213: only name, email and age are looked at
ApplyUpdate(student, data) ==
  [student EXCEPT !.name = IF data.name # None THEN data.name[1] ELSE @,
                  !.email = IF data.email # None THEN data.email[1] ELSE @,
                  !.age = IF data.age # None THEN data.age ELSE @]

\* PUT /students/<id>
update_student(w, r) ==
  CASE r.pc = "start" ->
         IF r.dberr # None
         THEN Respond(w, r, Inc(w.count, Label("PUT", "/students/<id>", "500")),
                      "/students/<id>", 500, ErrorBody("Failed to update student"))
         ELSE LET student == query_get(w.store, r.student_id)
              IN IF student = None
                 THEN Respond(w, r, Inc(w.count, Label("PUT", "/students/<id>", "404")),
                              "/students/<id>", 404, ErrorBody("Student not found"))
                 ELSE IF r.data = None
                 THEN \* 'name' in None raises TypeError
                      Respond(w, r, Inc(w.count, Label("PUT", "/students/<id>", "500")),
                              "/students/<id>", 500, ErrorBody("Failed to update student"))
                 ELSE LET updated == ApplyUpdate(student[1], r.data[1])
                      IN Ctx([w EXCEPT !.store = [w.store EXCEPT ![r.student_id] = Some(updated)]],
                             [r EXCEPT !.pc = "dcp_keys", !.student = Some(updated)])
    [] r.pc \in {"dcp_keys", "dcp_delete"} ->
         delete_cache_pattern(w, r, StudentsPattern)
    [] r.pc = "respond" ->
         Respond(w, r, Inc(w.count, Label("PUT", "/students/<id>", "200")),
                 "/students/<id>", 200, Json(PyDict(to_dict(r.student[1]))))

\* DELETE /students/<id>
delete_student_ClearsOnError(w, r) ==
  CASE r.pc = "start" ->
         IF r.dberr # None
         THEN Respond([w EXCEPT !.cache = [k \in DOMAIN w.cache |-> None]], r,
                      Inc(w.count, Label("DELETE", "/students/<id>", "500")),
                      "/students/<id>", 500, ErrorBody("Failed to delete student"))
         ELSE LET student == query_get(w.store, r.student_id)
              IN IF student = None
                 THEN Respond(w, r, Inc(w.count, Label("DELETE", "/students/<id>", "404")),
                              "/students/<id>", 404, ErrorBody("Student not found"))
                 ELSE Ctx([w EXCEPT !.store = [w.store EXCEPT ![r.student_id] = None]],
                          [r EXCEPT !.pc = "dcp_keys", !.student = student])
    [] r.pc \in {"dcp_keys", "dcp_delete"} ->
         delete_cache_pattern(w, r, StudentsPattern)
    [] r.pc = "respond" ->
         Respond(w, r, Inc(w.count, Label("DELETE", "/students/<id>", "200")),
                 "/students/<id>", 200,
                 Body("message", <<>>, "Student deleted successfully", ""))

delete_student(w, r) ==
  CASE r.pc = "start" ->
         IF r.dberr # None
         THEN Respond(w, r, Inc(w.count, Label("DELETE", "/students/<id>", "500")),
                      "/students/<id>", 500, ErrorBody("Failed to delete student"))
         ELSE LET student == query_get(w.store, r.student_id)
              IN IF student = None
                 THEN Respond(w, r, Inc(w.count, Label("DELETE", "/students/<id>", "404")),
                              "/students/<id>", 404, ErrorBody("Student not found"))
                 ELSE Ctx([w EXCEPT !.store = [w.store EXCEPT ![r.student_id] = None]],
                          [r EXCEPT !.pc = "dcp_keys", !.student = student])
    [] r.pc \in {"dcp_keys", "dcp_delete"} ->
         delete_cache_pattern(w, r, StudentsPattern)
    [] r.pc = "respond" ->
         Respond(w, r, Inc(w.count, Label("DELETE", "/students/<id>", "200")),
                 "/students/<id>", 200,
                 Body("message", <<>>, "Student deleted successfully", ""))

\* GET /healthcheck
healthcheck_NoInnerTry(w, r) ==
  IF r.dberr # None \/ (r.redis /\ "ping" \in r.fails)
  THEN Respond(w, r, Inc(w.count, Label("GET", "/healthcheck", "500")),
               "/healthcheck", 500,
               Body("health", <<>>, "unhealthy",
                    IF r.dberr # None THEN r.dberr[1] ELSE "ConnectionError"))
  ELSE Respond(w, r, Inc(w.count, Label("GET", "/healthcheck", "200")),
               "/healthcheck", 200,
               Body("health", <<>>, "healthy",
                    IF r.redis THEN "healthy" ELSE "unavailable"))

healthcheck(w, r) ==
  IF r.dberr # None
  THEN \* db.session.execute('SELECT 1') raises e: body carries str(e)
       Respond(w, r, Inc(w.count, Label("GET", "/healthcheck", "500")),
               "/healthcheck", 500, Body("health", <<>>, "unhealthy", r.dberr[1]))
  ELSE LET redis_status == IF ~r.redis THEN "unavailable"
                           ELSE IF "ping" \in r.fails THEN "unhealthy"
                           ELSE "healthy"
       IN Respond(w, r, Inc(w.count, Label("GET", "/healthcheck", "200")),
                  "/healthcheck", 200, Body("health", <<>>, "healthy", redis_status))

\* the route table of api_bp
Step(w, r) ==
  CASE r.op = "create_student" -> create_student(w, r)
    [] r.op = "get_students" -> get_students(w, r)
    [] r.op = "get_student" -> get_student(w, r)
    [] r.op = "update_student" -> update_student(w, r)
    [] r.op = "delete_student" -> delete_student(w, r)
    [] r.op = "healthcheck" -> healthcheck(w, r)

\* a request handled from start to response with no other request in between
RECURSIVE Run(_, _)
Run(w, r) == IF r.pc = "done" THEN Ctx(w, r)
             ELSE CHOOSE d \in {Run(c.w, c.r) : c \in {Step(w, r)}} : TRUE

(* ---------------------------- state ----------------------------------- *)
W == [store |-> store, cache |-> cache, count |-> REQUEST_COUNT, lat |-> REQUEST_LATENCY]

\* what the client and the log saw of a served request
Served(r) == [op |-> r.op, student_id |-> r.student_id, status |-> r.status,
              body |-> r.body, warnings |-> r.warnings]
NoRequest == [op |-> "", student_id |-> 0, status |-> 0, body |-> NoBody, warnings |-> 0]

\* inputs: which cache calls of a request raise, and what the store raises
WriteFails == {{}, {"keys"}, {"delete"}}
ReadFails == SUBSET {"get", "setex"}
PingFails == SUBSET {"ping"}
DbErr == Opt(DbErrors)
Bodies == Opt(Dicts)

\* a worker with no request
Idle == [NewReq("", 0, None, {}, None, FALSE) EXCEPT !.pc = "idle"]
IdleConn == [pc |-> "idle", duration |-> 0, dberr |-> None]

InitMetrics == [http_requests_total |-> 0, http_request_duration_seconds |-> <<>>,
                active_connections |-> 0, database_connections |-> 0]

\* the database outlives the process: create_app() neither creates nor clears
\* rows, so the app starts over an empty table or over rows of an earlier run
SeededStore ==
  [i \in Ids |-> IF i = 1
                 THEN Some([Student("Ada", "ada@x.com", None) EXCEPT !.id = 1])
                 ELSE None]
InitStores == {[i \in Ids |-> None], SeededStore}

EmptyCache == [k \in Keys |-> None]

InitCommon ==
  /\ REQUEST_COUNT = [l \in {} |-> 0]
  /\ REQUEST_LATENCY = [e \in Endpoints |-> 0]
  /\ last = NoRequest
  /\ nreq = 0
  /\ procs = [p \in Procs |-> Idle]
  /\ metrics_lock = 0
  /\ conns = [p \in Procs |-> IdleConn]

\* create_app(): app.redis is the client, or None when the first ping failed
Init ==
  /\ InitCommon
  /\ store \in InitStores
  /\ cache = EmptyCache
  /\ redis \in BOOLEAN
  /\ metrics = InitMetrics
  /\ arrivals = <<>>
  /\ completed = 0

(* ---------------------------- Spec: requests served one at a time ----- *)
Serve(r) ==
  \E c \in {Run(W, r)} :
     /\ store' = c.w.store
     /\ cache' = c.w.cache
     /\ REQUEST_COUNT' = c.w.count
     /\ REQUEST_LATENCY' = c.w.lat
     /\ last' = Served(c.r)
     /\ nreq' = nreq + 1
     /\ UNCHANGED <<redis, procs, metrics, metrics_lock, conns, arrivals, completed>>

\* A request whose store call raises makes no later call, one answered 400 or
\* 404 calls neither the store again nor the cache, one served with app.redis
\* None makes no cache call, and no handler reads data['grade']: the inputs a
\* request never reads are left at their defaults.
Unread(data) == data # None => data[1].grade = None

CreateStudent ==
  /\ nreq < MaxReqs
  /\ NewId(store) \in Ids
  /\ \E data \in Bodies, f \in WriteFails, e \in DbErr :
       /\ (e # None \/ ~redis) => f = {}
       /\ (Falsy(data) \/ data[1].email = None \/ data[1].name = None)
          => (f = {} /\ e = None)
       /\ Unread(data)
       /\ Serve(NewReq("create_student", 0, data, f, e, redis))

GetStudents ==
  /\ nreq < MaxReqs
  /\ \E f \in ReadFails, e \in DbErr :
       /\ e # None => "setex" \notin f
       /\ ~redis => f = {}
       /\ Serve(NewReq("get_students", 0, None, f, e, redis))

GetStudent ==
  /\ nreq < MaxReqs
  /\ \E id \in Ids, f \in ReadFails, e \in DbErr :
       /\ e # None => "setex" \notin f
       /\ ~redis => f = {}
       /\ Serve(NewReq("get_student", id, None, f, e, redis))

UpdateStudent ==
  /\ nreq < MaxReqs
  /\ \E id \in Ids, data \in Bodies, f \in WriteFails, e \in DbErr :
       /\ e # None => (f = {} /\ data = None)
       /\ (data = None \/ ~redis \/ store[id] = None) => f = {}
       /\ Unread(data)
       /\ Serve(NewReq("update_student", id, data, f, e, redis))

DeleteStudent ==
  /\ nreq < MaxReqs
  /\ \E id \in Ids, f \in WriteFails, e \in DbErr :
       /\ (e # None \/ ~redis \/ store[id] = None) => f = {}
       /\ Serve(NewReq("delete_student", id, None, f, e, redis))

Healthcheck ==
  /\ nreq < MaxReqs
  /\ \E f \in PingFails, e \in DbErr :
       /\ (e # None \/ ~redis) => f = {}
       /\ Serve(NewReq("healthcheck", 0, None, f, e, redis))

\* the TTL of an entry runs out: redis drops the key
Expire ==
  \E k \in Keys :
    /\ cache[k] # None
    /\ cache' = [cache EXCEPT ![k] = None]
    /\ UNCHANGED <<store, redis, REQUEST_COUNT, REQUEST_LATENCY, last, nreq,
                   procs, metrics, metrics_lock, conns, arrivals, completed>>

Next ==
  \/ CreateStudent
  \/ GetStudents
  \/ GetStudent
  \/ UpdateStudent
  \/ DeleteStudent
  \/ Healthcheck
  \/ Expire

Spec == Init /\ [][Next]_vars

(* ---------------------------- SpecConc: interleaved handlers ---------- *)
\* Requests run concurrently: each step of a handler (one store or cache
\* call) is atomic, steps of different requests interleave in any order,
\* nothing is locked.  The cache backend is up and no call to it raises.
InitConc ==
  /\ InitCommon
  /\ store \in InitStores
  /\ cache = EmptyCache
  /\ redis = TRUE
  /\ metrics = InitMetrics
  /\ arrivals = <<>>
  /\ completed = 0

ConcBodies ==
  {Some([name |-> Some("Bob"), email |-> Some("ada@x.com"), age |-> None, grade |-> None])}

ConcRequests ==
  {NewReq("create_student", 0, data, {}, None, TRUE) : data \in ConcBodies}
  \cup {NewReq("get_students", 0, None, {}, None, TRUE)}
  \cup {NewReq("get_student", id, None, {}, None, TRUE) : id \in Ids}
  \cup {NewReq("update_student", x[1], x[2], {}, None, TRUE) : x \in Ids \X ConcBodies}
  \cup {NewReq("delete_student", id, None, {}, None, TRUE) : id \in Ids}

\* ids the store would hand out to the creates in flight must stay in Ids
InFlightCreates == Cardinality({p \in Procs : procs[p].op = "create_student"
                                               /\ procs[p].pc = "start"})

\* a worker picks up a request
Accept(p) ==
  /\ procs[p].pc = "idle"
  /\ nreq < MaxConcReqs
  /\ \E q \in ConcRequests :
       /\ q.op = "create_student" => NewId(store) + InFlightCreates \in Ids
       /\ procs' = [procs EXCEPT ![p] = q]
  /\ nreq' = nreq + 1
  /\ UNCHANGED <<store, cache, redis, REQUEST_COUNT, REQUEST_LATENCY, last,
                 metrics, metrics_lock, conns, arrivals, completed>>

\* the handler of worker p makes its next call; after the last one the
\* response is sent and the worker is free again
Advance(p) ==
  /\ procs[p].pc \notin {"idle", "done"}
  /\ \E c \in {Step(W, procs[p])} :
       /\ store' = c.w.store
       /\ cache' = c.w.cache
       /\ REQUEST_COUNT' = c.w.count
       /\ REQUEST_LATENCY' = c.w.lat
       /\ IF c.r.pc = "done"
          THEN last' = Served(c.r) /\ procs' = [procs EXCEPT ![p] = Idle]
          ELSE last' = last /\ procs' = [procs EXCEPT ![p] = c.r]
  /\ UNCHANGED <<redis, nreq, metrics, metrics_lock, conns, arrivals, completed>>

NextConc == \E p \in Procs : Accept(p) \/ Advance(p)

SpecConc == InitConc /\ [][NextConc]_vars

(* ---------------------------- operational endpoints ----------------- *)
\* exceptions redis.info() may raise
RedisErrors == {"ConnectionError", "TimeoutError"}

\* what SELECT 1 can raise: the database is unreachable
ReadyErr == {None, Some("OperationalError")}

\* GET /ready once db.session.execute('SELECT 1') has returned (e = None) or
\* raised e: the gauge it sets under metrics_lock and its response; the 503
\* body carries str(e)
readiness_check_IgnoresStore(m, e) ==
  [metrics |-> [m EXCEPT !.database_connections = 1], status |-> 200,
   body |-> Body("ready", <<>>, "ready", "")]

readiness_check(m, e) ==
  IF e = None
  THEN [metrics |-> [m EXCEPT !.database_connections = 1], status |-> 200,
        body |-> Body("ready", <<>>, "ready", "")]
  ELSE [metrics |-> [m EXCEPT !.database_connections = 0], status |-> 503,
        body |-> Body("ready", <<>>, "not ready", e[1])]

\* GET /cache/stats: e is what redis.info() raises, if anything; the 500 body
\* carries str(e)
cache_stats(rds, e) ==
  IF ~rds THEN [status |-> 503, body |-> ErrorBody("Redis not available")]
  ELSE IF e # None THEN [status |-> 500, body |-> ErrorBody(e[1])]
  ELSE [status |-> 200, body |-> Body("stats", <<>>, "", "")]

\* sum(buffer), by halves
RECURSIVE SumRange(_, _, _)
SumRange(s, lo, hi) ==
  IF lo > hi THEN 0
  ELSE IF lo = hi THEN s[lo]
  ELSE LET mid == (lo + hi) \div 2
       IN SumRange(s, lo, mid) + SumRange(s, mid + 1, hi)
Sum(s) == SumRange(s, 1, Len(s))

\* GET /metrics: the text rendered under metrics_lock; the average is kept as
\* the pair (sum, count) it is computed from, 0 when the buffer is empty
metrics_endpoint(m) ==
  LET buf == m.http_request_duration_seconds
      avg_response_time == IF Len(buf) > 0 THEN <<Sum(buf), Len(buf)>> ELSE <<0>>
  IN [status |-> 200,
      body |-> Body("metrics",
                    <<m.http_requests_total, avg_response_time,
                      m.active_connections, m.database_connections>>, "", "")]

(* ---------------------------- SpecMetrics: the request hooks ---------- *)
\* before_request and after_request wrap every request of the blueprint and
\* update the metrics dict under metrics_lock.  conns[p] is the position of
\* worker p in the hooks and in the operational endpoints, the exception its
\* store call raised and its response; metrics_lock is 0 when free, else its
\* holder.  arrivals is the history of every duration ever appended, oldest
\* first; completed counts the requests whose after_request has returned.
MaxSamples == 1000
Durations == {1, 2}

\* lines 32-33: if len(buffer) > 1000: buffer.pop(0)
TrimBuffer_PopLast(buf) ==
  IF Len(buf) > MaxSamples THEN SubSeq(buf, 1, Len(buf) - 1) ELSE buf
TrimBuffer(buf) == IF Len(buf) > MaxSamples THEN Tail(buf) ELSE buf

\* the buffer after Prefill requests served before the behaviour starts
PrefilledBuffer == [i \in 1..Prefill |-> (i % 2) + 1]

\* the cache once GET /students and GET /students/<id> for every id have
\* been served over the store st
RECURSIVE WarmFrom(_, _)
WarmFrom(w, i) ==
  IF i > MaxId THEN w
  ELSE WarmFrom(Run(w, NewReq("get_student", i, None, {}, None, TRUE)).w, i + 1)
WarmCache(st) ==
  WarmFrom(Run([store |-> st, cache |-> EmptyCache, count |-> [l \in {} |-> 0],
                lat |-> [e \in Endpoints |-> 0]],
               NewReq("get_students", 0, None, {}, None, TRUE)).w, 1).cache

\* the app has served reads before: rows of an earlier run, and either
\* their entries in the cache or no cache at all
InitApp ==
  /\ InitCommon
  /\ store = SeededStore
  /\ redis \in BOOLEAN
  /\ cache = (IF redis THEN WarmCache(store) ELSE EmptyCache)

\* the process has counted no request yet
InitFresh == InitApp /\ metrics = InitMetrics /\ arrivals = <<>> /\ completed = 0

\* the process has already served Prefill requests
InitPrefilled ==
  /\ InitApp
  /\ metrics = [InitMetrics EXCEPT !.http_requests_total = Prefill,
                                   !.http_request_duration_seconds = PrefilledBuffer]
  /\ arrivals = PrefilledBuffer
  /\ completed = Prefill

InitMetricsSpec == InitFresh \/ InitPrefilled

UnchangedApp == UNCHANGED <<store, cache, redis, REQUEST_COUNT, REQUEST_LATENCY,
                            last, procs>>
Goto(p, pc) == conns' = [conns EXCEPT ![p].pc = pc]

\* the route function has returned its response; after_request then calls
\* record_request_metrics, line 27: duration = time.time() - start_time
Returned(p) ==
  \E d \in Durations :
    conns' = [conns EXCEPT ![p] = [pc |-> "rrm_lock", duration |-> d, dberr |-> None]]

\* before_request, line 37: request.start_time = time.time()
BeforeRequest(p) ==
  /\ conns[p].pc = "idle"
  /\ nreq < MaxExtra
  /\ nreq' = nreq + 1
  /\ Goto(p, "br_lock")
  /\ UNCHANGED <<metrics, metrics_lock, arrivals, completed>> /\ UnchangedApp

\* `with metrics_lock:` entered (lines 28, 38, 45, 294, 327 and 336)
Acquire(p) ==
  /\ conns[p].pc \in {"br_lock", "rrm_lock", "ar_lock", "ready_lock", "me_lock"}
  /\ metrics_lock = 0
  /\ metrics_lock' = p
  /\ Goto(p, CASE conns[p].pc = "br_lock" -> "br_inc"
               [] conns[p].pc = "rrm_lock" -> "rrm_total"
               [] conns[p].pc = "ar_lock" -> "ar_dec"
               [] conns[p].pc = "ready_lock" -> "ready_set"
               [] conns[p].pc = "me_lock" -> "me_read")
  /\ UNCHANGED <<metrics, nreq, arrivals, completed>> /\ UnchangedApp

\* line 39, then the lock is released
CountConnection_Twice(p) ==
  /\ conns[p].pc = "br_inc"
  /\ metrics' = [metrics EXCEPT !.active_connections = @ + 2]
  /\ metrics_lock' = 0
  /\ Goto(p, "handler")
  /\ UNCHANGED <<nreq, arrivals, completed>> /\ UnchangedApp

CountConnection(p) ==
  /\ conns[p].pc = "br_inc"
  /\ metrics' = [metrics EXCEPT !.active_connections = @ + 1]
  /\ metrics_lock' = 0
  /\ Goto(p, "handler")
  /\ UNCHANGED <<nreq, arrivals, completed>> /\ UnchangedApp

\* the route function of a student handler or of healthcheck runs; none of
\* them touches the metrics dict
Handle(p) ==
  /\ conns[p].pc = "handler"
  /\ Returned(p)
  /\ UNCHANGED <<metrics, metrics_lock, nreq, arrivals, completed>> /\ UnchangedApp

\* GET /ready, line 326: db.session.execute('SELECT 1') returns or raises
Ready(p) ==
  /\ conns[p].pc = "handler"
  /\ \E e \in ReadyErr : conns' = [conns EXCEPT ![p].pc = "ready_lock", ![p].dberr = e]
  /\ UNCHANGED <<metrics, metrics_lock, nreq, arrivals, completed>> /\ UnchangedApp

\* GET /ready, lines 328 or 337, then the lock is released and the response built
SetDatabaseConnections(p) ==
  /\ conns[p].pc = "ready_set"
  /\ metrics' = readiness_check(metrics, conns[p].dberr).metrics
  /\ Returned(p)
  /\ metrics_lock' = 0
  /\ UNCHANGED <<nreq, arrivals, completed>> /\ UnchangedApp

\* GET /cache/stats: reads redis.info(), changes nothing
CacheStats(p) ==
  /\ conns[p].pc = "handler"
  /\ \E e \in Opt(RedisErrors) : cache_stats(redis, e).status \in {200, 500, 503}
  /\ Returned(p)
  /\ UNCHANGED <<metrics, metrics_lock, nreq, arrivals, completed>> /\ UnchangedApp

\* GET /metrics is routed; line 294 waits for the lock
MetricsEndpoint(p) ==
  /\ conns[p].pc = "handler"
  /\ Goto(p, "me_lock")
  /\ UNCHANGED <<metrics, metrics_lock, nreq, arrivals, completed>> /\ UnchangedApp

\* GET /metrics, lines 295-316, then the lock is released
RenderMetrics(p) ==
  /\ conns[p].pc = "me_read"
  /\ metrics_endpoint(metrics).status = 200
  /\ Returned(p)
  /\ metrics_lock' = 0
  /\ UNCHANGED <<metrics, nreq, arrivals, completed>> /\ UnchangedApp

\* line 29
CountRequest_Twice(p) ==
  /\ conns[p].pc = "rrm_total"
  /\ metrics' = [metrics EXCEPT !.http_requests_total = @ + 2]
  /\ Goto(p, "rrm_append")
  /\ UNCHANGED <<metrics_lock, nreq, arrivals, completed>> /\ UnchangedApp

CountRequest(p) ==
  /\ conns[p].pc = "rrm_total"
  /\ metrics' = [metrics EXCEPT !.http_requests_total = @ + 1]
  /\ Goto(p, "rrm_append")
  /\ UNCHANGED <<metrics_lock, nreq, arrivals, completed>> /\ UnchangedApp

\* line 30
AppendDuration_Twice(p) ==
  /\ conns[p].pc = "rrm_append"
  /\ metrics' = [metrics EXCEPT !.http_request_duration_seconds =
                                   Append(Append(@, conns[p].duration), conns[p].duration)]
  /\ arrivals' = Append(Append(arrivals, conns[p].duration), conns[p].duration)
  /\ Goto(p, "rrm_trim")
  /\ UNCHANGED <<metrics_lock, nreq, completed>> /\ UnchangedApp

AppendDuration(p) ==
  /\ conns[p].pc = "rrm_append"
  /\ metrics' = [metrics EXCEPT !.http_request_duration_seconds =
                                   Append(@, conns[p].duration)]
  /\ arrivals' = Append(arrivals, conns[p].duration)
  /\ Goto(p, "rrm_trim")
  /\ UNCHANGED <<metrics_lock, nreq, completed>> /\ UnchangedApp

\* lines 32-33, then the lock is released
Trim(p) ==
  /\ conns[p].pc = "rrm_trim"
  /\ metrics' = [metrics EXCEPT !.http_request_duration_seconds = TrimBuffer(@)]
  /\ metrics_lock' = 0
  /\ Goto(p, "ar_lock")
  /\ UNCHANGED <<nreq, arrivals, completed>> /\ UnchangedApp

\* line 46, then the lock is released and the response returned
ReleaseConnection(p) ==
  /\ conns[p].pc = "ar_dec"
  /\ metrics' = [metrics EXCEPT !.active_connections =
                                   IF @ - 1 > 0 THEN @ - 1 ELSE 0]
  /\ metrics_lock' = 0
  /\ conns' = [conns EXCEPT ![p] = IdleConn]
  /\ completed' = completed + 1
  /\ UNCHANGED <<nreq, arrivals>> /\ UnchangedApp

\* every step of a request already accepted by worker p
Proceed(p) ==
  \/ Acquire(p)
  \/ CountConnection(p)
  \/ Handle(p)
  \/ Ready(p)
  \/ SetDatabaseConnections(p)
  \/ CacheStats(p)
  \/ MetricsEndpoint(p)
  \/ RenderMetrics(p)
  \/ CountRequest(p)
  \/ AppendDuration(p)
  \/ Trim(p)
  \/ ReleaseConnection(p)

NextMetrics ==
  \E p \in Procs :
    \/ BeforeRequest(p)
    \/ Proceed(p)

SpecMetrics == InitMetricsSpec /\ [][NextMetrics]_vars

\* The server's threads keep running: a request that can take a step takes
\* one, and metrics_lock is only ever held across lines that terminate.
SpecMetricsLive ==
  InitFresh /\ [][NextMetrics]_vars /\ \A p \in Procs : WF_vars(Proceed(p))

(* ---------------------------- properties of Spec ---------------------- *)
StudentOps == {"create_student", "get_students", "get_student", "update_student",
               "delete_student"}
\* the @api_bp.route decorators
MethodOf(op) == CASE op = "create_student" -> "POST"
                  [] op = "update_student" -> "PUT"
                  [] op = "delete_student" -> "DELETE"
                  [] OTHER -> "GET"
EndpointOf(op) == CASE op \in {"create_student", "get_students"} -> "/students"
                    [] op = "healthcheck" -> "/healthcheck"
                    [] OTHER -> "/students/<id>"
StatusStr(n) == CASE n = 200 -> "200" [] n = 201 -> "201" [] n = 400 -> "400"
                  [] n = 404 -> "404" [] n = 500 -> "500" [] OTHER -> "0"

\* what GET /students/<id> and GET /students answer from the store st
GetReflects(g, st, id) ==
  IF st[id] = None
  THEN g.r.status = 404
  ELSE g.r.status = 200 /\ g.r.body = Json(PyDict(to_dict(st[id][1])))
ListReflects(g, st) ==
  g.r.status = 200 /\ g.r.body = Json(PyList(MapToDict(query_all(st))))

\* C1: requests served one at a time, cache backend available (no cache call
\* of the write raised): right after a PUT or DELETE /students/{id} that
\* returned 200, the next GET /students/{id} and the next GET /students are
\* answered from the store's current state, never from a pre-mutation entry.
C1_NoStaleReadAfterWrite ==
  (/\ redis
   /\ last.op \in {"update_student", "delete_student"}
   /\ last.status = 200
   /\ last.warnings = 0)
  => /\ \A g \in {Run(W, NewReq("get_student", last.student_id, None, {}, None, redis))} :
          GetReflects(g, store, last.student_id)
     /\ \A g \in {Run(W, NewReq("get_students", 0, None, {}, None, redis))} :
          ListReflects(g, store)

\* a PUT that changed a row, or a DELETE, served while entries for that row
\* and for the list may have been cached
C1_Witness ==
  /\ redis
  /\ last.op \in {"update_student", "delete_student"}
  /\ last.status = 200
  /\ last.warnings = 0
  /\ \E l \in DOMAIN REQUEST_COUNT : l.method = "GET" /\ l.status = "200"

\* C3: in every reachable state, GET /students/{id} for an id that is not in
\* the store returns 404, whatever the cache holds.
C3_GetMissingIs404 ==
  \A id \in Ids, f \in ReadFails :
    store[id] = None
    => \A g \in {Run(W, NewReq("get_student", id, None, f, None, redis))} :
         g.r.status = 404

\* name and email are keys of the payload
HasNameAndEmail(d) == d.name # None /\ d.email # None

\* C4: for every creation payload that contains name and email, POST /students
\* returns 201 with an id no other student of the store has, and GET
\* /students/{id} then returns the payload's value for every field given.
C4_CreateThenGetRoundTrip ==
  NewId(store) \in Ids
  => \A d \in Dicts :
       HasNameAndEmail(d)
       => \A c \in {Run(W, NewReq("create_student", 0, Some(d), {}, None, redis))} :
            /\ c.r.status = 201
            /\ c.r.body.items[1].id \notin Present(store)
            /\ \A g \in {Run(c.w, NewReq("get_student", c.r.body.items[1].id, None,
                                         {}, None, redis))} :
                 /\ g.r.status = 200
                 /\ g.r.body.items[1].name = d.name[1]
                 /\ g.r.body.items[1].email = d.email[1]
                 /\ (d.age # None => g.r.body.items[1].age = d.age)
                 /\ (d.grade # None => g.r.body.items[1].grade = d.grade)

\* name or email is missing or empty, or there is no body
MissingOrEmpty(data) ==
  \/ data = None
  \/ data[1].name = None \/ data[1].name = Some("")
  \/ data[1].email = None \/ data[1].email = Some("")

\* C5: for every creation payload in which name or email is missing or empty,
\* and for an absent body, POST /students returns 400 with an error body and
\* the store holds the same students afterwards.
C5_InvalidCreateIs400 ==
  NewId(store) \in Ids
  => \A data \in Bodies, f \in WriteFails :
       MissingOrEmpty(data)
       => \A c \in {Run(W, NewReq("create_student", 0, data, f, None, redis))} :
            /\ c.r.status = 400
            /\ c.r.body.kind = "error"
            /\ c.w.store = store

\* bodies for the claims that are not about the payload: no body, a body
\* with name, email and age, a body with age alone
SampleBodies ==
  {None,
   Some([name |-> Some("Bob"), email |-> Some("ada@x.com"), age |-> Some(30), grade |-> None]),
   Some([name |-> None, email |-> None, age |-> Some(30), grade |-> None])}

\* requests to the five student handlers, before any cache call is made to
\* raise
PlainRequests(rds) ==
  {NewReq("create_student", 0, d, {}, None, rds) : d \in SampleBodies}
  \cup {NewReq("update_student", x[1], x[2], {}, None, rds) : x \in Ids \X SampleBodies}
  \cup {NewReq("delete_student", id, None, {}, None, rds) : id \in Ids}
  \cup {NewReq("get_students", 0, None, {}, e, rds) : e \in DbErr}
  \cup {NewReq("get_student", x[1], None, {}, x[2], rds) : x \in Ids \X DbErr}

WriteOps == {"create_student", "update_student", "delete_student"}

\* the cache calls of a request that may raise: a write reaches the cache
\* only after its commit, a read before its query
CacheFails(q) ==
  IF q.op \in WriteOps THEN WriteFails \ {{}}
  ELSE IF q.dberr = None THEN ReadFails \ {{}}
  ELSE {{"get"}}                      \* the query raises: setex is never reached

\* C6: a failure of the cache backend never fails a request: whenever a cache
\* call of a student handler raises (the handler logs its warning), the
\* response status and body and the resulting store are those of the same
\* request served with no cache configured (app.redis None).
C6_CacheFailureIsSilent ==
  redis
  => \A q \in PlainRequests(TRUE) :
       (q.op = "create_student" => NewId(store) \in Ids)
       => \A n \in {Run(W, [q EXCEPT !.redis = FALSE])} :
            \A f \in CacheFails(q) :
              \A c \in {Run(W, [q EXCEPT !.fails = f])} :
                c.r.warnings > 0
                => /\ c.r.status = n.r.status
                   /\ c.r.body = n.r.body
                   /\ c.w.store = n.w.store

\* a read served although its cache call raised
C6_Witness ==
  /\ redis
  /\ last.op \in {"get_student", "get_students"}
  /\ last.warnings > 0
  /\ last.status = 200
  /\ last.body.items # <<>>

\* C7: every request of the five student handlers increments the request
\* counter exactly once, on the label of its method, endpoint and returned
\* status.
C7_OneCountPerRequest ==
  [][(nreq' = nreq + 1 /\ last'.op \in StudentOps)
     => REQUEST_COUNT' = Inc(REQUEST_COUNT,
                             Label(MethodOf(last'.op), EndpointOf(last'.op),
                                   StatusStr(last'.status)))]_vars

\* C8 as stated: GET /healthcheck returns 200 with status 'healthy' for every
\* store health and every cache health.
C8_HealthcheckAlways200 ==
  \A f \in PingFails, e \in DbErr :
    \A c \in {Run(W, NewReq("healthcheck", 0, None, f, e, redis))} :
      c.r.status = 200 /\ c.r.body.text = "healthy"

\* C8 amended: GET /healthcheck returns 200 with status 'healthy' whenever the
\* store is reachable, for every cache health (absent, healthy, failing on
\* ping); when the store is unreachable it returns 500 with status 'unhealthy'.
C8_HealthcheckFollowsStore ==
  \A f \in PingFails, e \in DbErr :
    \A c \in {Run(W, NewReq("healthcheck", 0, None, f, e, redis))} :
      IF e = None
      THEN c.r.status = 200 /\ c.r.body.text = "healthy"
      ELSE c.r.status = 500 /\ c.r.body.text = "unhealthy"

\* a healthcheck answered 200 'healthy' while redis failed its ping
C8_Witness ==
  /\ last.op = "healthcheck"
  /\ last.status = 200
  /\ last.body.text = "healthy"
  /\ last.body.detail = "unhealthy"

\* the row a PUT with body d should leave: every supplied field set
Supplied(student, d) ==
  [student EXCEPT !.name = IF d.name # None THEN d.name[1] ELSE @,
                  !.email = IF d.email # None THEN d.email[1] ELSE @,
                  !.age = IF d.age # None THEN d.age ELSE @,
                  !.grade = IF d.grade # None THEN d.grade ELSE @]

\* C10: PUT /students/{id} on an existing student returns 200 and changes
\* exactly the supplied fields among name, email, age and grade; the id and
\* the fields not supplied keep their values.
C10_UpdateChangesSuppliedFields ==
  \A id \in Ids, d \in Dicts, f \in WriteFails :
    store[id] # None
    => \A c \in {Run(W, NewReq("update_student", id, Some(d), f, None, redis))} :
         /\ c.r.status = 200
         /\ c.w.store[id] = Some(Supplied(store[id][1], d))
         /\ c.r.body = Json(PyDict(to_dict(Supplied(store[id][1], d))))

ValidBody ==
  Some([name |-> Some("Bob"), email |-> Some("ada@x.com"), age |-> Some(30), grade |-> None])

\* one request to each student handler and to healthcheck, nothing failing yet
RequestTemplates(rds) ==
  {NewReq("create_student", 0, d, {}, None, rds) : d \in SampleBodies}
  \cup {NewReq("get_students", 0, None, {}, None, rds)}
  \cup {NewReq("get_student", id, None, {}, None, rds) : id \in Ids}
  \cup {NewReq("update_student", x[1], x[2], {}, None, rds) : x \in Ids \X SampleBodies}
  \cup {NewReq("delete_student", id, None, {}, None, rds) : id \in Ids}
  \cup {NewReq("healthcheck", 0, None, {}, None, rds)}

\* C11: every 500 response of the student handlers, of healthcheck and of
\* /cache/stats carries a fixed generic message: two requests that fail with
\* different internal exceptions get identical response bodies.
C11_ErrorBodiesAreGeneric ==
  /\ \A t \in RequestTemplates(redis), e1 \in DbErrors, e2 \in DbErrors :
       \A a \in {Run(W, [t EXCEPT !.dberr = Some(e1)])},
          b \in {Run(W, [t EXCEPT !.dberr = Some(e2)])} :
         (a.r.status = 500 /\ b.r.status = 500) => a.r.body = b.r.body
  /\ \A e1 \in RedisErrors, e2 \in RedisErrors :
       (cache_stats(redis, Some(e1)).status = 500
        /\ cache_stats(redis, Some(e2)).status = 500)
       => cache_stats(redis, Some(e1)).body = cache_stats(redis, Some(e2)).body

\* the read of key k
ReadOf(k, e, rds) ==
  IF k = AllKey THEN NewReq("get_students", 0, None, {}, e, rds)
  ELSE NewReq("get_student", k[3], None, {}, e, rds)

\* C15: whenever the cache holds an unexpired entry for the key of a read
\* (students:all, students:id:<id>), the handler returns that cached value with
\* 200 and does not query the store (what the store would answer or raise makes
\* no difference); this holds for every cached value, a cached empty list too.
C15_CacheHitSkipsStore ==
  redis
  => \A k \in Keys, e \in DbErr :
       cache[k] # None
       => \A g \in {Run(W, ReadOf(k, e, redis))} :
            /\ g.r.status = 200
            /\ g.r.body = Json(json_loads(cache[k][1].data))

\* C17: a PUT or DELETE on an id that is not in the store returns 404 and
\* leaves the store and every cache entry unchanged, issuing no invalidation
\* (a failing redis.keys would be logged, and nothing is); a GET
\* /students/{id} that returns 404 writes nothing to the cache (a failing
\* setex would be logged, and nothing is).
C17_NotFoundChangesNothing ==
  \A id \in Ids :
    /\ store[id] = None
       => \A q \in {NewReq("update_student", id, ValidBody, {"keys"}, None, redis),
                    NewReq("update_student", id, None, {"keys"}, None, redis),
                    NewReq("delete_student", id, None, {"keys"}, None, redis)} :
            \A c \in {Run(W, q)} :
              /\ c.r.status = 404
              /\ c.w.store = store
              /\ c.w.cache = cache
              /\ c.r.warnings = 0
    /\ \A g \in {Run(W, NewReq("get_student", id, None, {"setex"}, None, redis))} :
         g.r.status = 404 => (g.w.cache = cache /\ g.r.warnings = 0)

\* a PUT or DELETE was answered 404 while the cache held entries
C17_Witness ==
  /\ redis
  /\ last.op \in {"update_student", "delete_student"}
  /\ last.status = 404
  /\ \E k \in Keys : cache[k] # None

\* C18: on a cache miss that the store answers successfully, get_students and
\* get_student write the value they return under the read's key with a TTL of
\* 300 seconds before responding, so that with no write in between the next
\* identical read is a cache hit (whatever the store would answer or raise)
\* returning the same value; every entry carries that TTL, after which redis
\* drops it, so no entry is served for longer.
C18_MissPopulatesForNextRead ==
  redis
  => \A k \in Keys :
       /\ cache[k] # None => cache[k][1].ttl = 300
       /\ cache[k] = None
          => \A c \in {Run(W, ReadOf(k, None, redis))} :
               c.r.status = 200
               => /\ c.w.cache[k]
                       = Some([data |-> json_dumps([kind |-> c.r.body.kind,
                                                    items |-> c.r.body.items]),
                               ttl |-> 300])
                  /\ \A e \in DbErr :
                       \A g \in {Run(c.w, ReadOf(k, e, redis))} :
                         g.r.status = 200 /\ g.r.body = c.r.body

\* write requests whose store operation raises: the commit of a create, of an
\* update or of a delete of an existing student, or a PUT with no JSON body
FailingWrites(st, rds) ==
  {NewReq("create_student", 0, ValidBody, {"keys"}, Some(e), rds) : e \in DbErrors}
  \cup {NewReq("update_student", x[1], ValidBody, {"keys"}, Some(x[2]), rds) :
          x \in Present(st) \X DbErrors}
  \cup {NewReq("delete_student", x[1], None, {"keys"}, Some(x[2]), rds) :
          x \in Present(st) \X DbErrors}
  \cup {NewReq("update_student", id, None, {"keys"}, None, rds) : id \in Present(st)}

\* C20: a write handler whose store operation raises returns 500, issues no
\* cache invalidation (a failing redis.keys would be logged, and nothing is)
\* and leaves every cache entry exactly as it was before the request.
C20_FailedWriteKeepsCache ==
  \A q \in FailingWrites(store, redis) :
    \A c \in {Run(W, q)} :
      /\ c.r.status = 500
      /\ c.r.warnings = 0
      /\ c.w.cache = cache

\* a write was answered 500 while the cache held entries
C20_Witness ==
  /\ redis
  /\ last.op \in WriteOps
  /\ last.status = 500
  /\ \E k \in Keys : cache[k] # None

(* ---------------------------- properties of SpecConc ------------------ *)
Quiescent == \A p \in Procs : procs[p].pc = "idle"

\* the value a read of key k would build from the store st
Fresh(st, k) ==
  IF k = AllKey THEN Some(PyList(MapToDict(query_all(st))))
  ELSE IF st[k[3]] = None THEN None
  ELSE Some(PyDict(to_dict(st[k[3]][1])))

\* C2: reads and writes interleave with no locking; once every request has
\* finished, every entry present in the cache holds the data of the store as
\* the last committed write left it (no students:all or students:id:<id>
\* entry holds pre-write data).
C2_QuiescentCacheIsFresh ==
  Quiescent
  => \A k \in Keys :
       cache[k] # None => Some(json_loads(cache[k][1].data)) = Fresh(store, k)

\* C16: every successful create, update or delete, with the cache backend
\* available, first commits to the store and then deletes every key matching
\* students:* : the handler touches the cache only after its commit step and
\* the store only in that step, and in the state right after its invalidation
\* step (the last call of delete_cache_pattern) no students:* key exists.
C16_CommitThenInvalidateAll ==
  [][\A p \in Procs :
       (procs[p].op \in WriteOps /\ procs'[p] # procs[p])     \* a step of writer p
       => /\ procs[p].pc = "start" => cache' = cache
          /\ procs[p].pc \in {"dcp_keys", "dcp_delete"} => store' = store
          /\ (procs[p].pc \in {"dcp_keys", "dcp_delete"} /\ procs'[p].pc = "respond")
             => \A k \in Keys : Matches(k, StudentsPattern) => cache'[k] = None]_vars

(* ---------------------------- properties of SpecMetrics --------------- *)
\* the last n elements of s, in order
LastN(s, n) == SubSeq(s, Len(s) - n + 1, Len(s))
Min(a, b) == IF a < b THEN a ELSE b

\* C9: whenever metrics_lock is not held the duration buffer holds at most
\* 1000 samples, and they are the most recent min(n, 1000) of the n samples
\* ever appended, in arrival order (the sample dropped from a full buffer is
\* the earliest one).
C9_BufferIsLast1000 ==
  metrics_lock = 0
  => /\ Len(metrics.http_request_duration_seconds) <= 1000
     /\ metrics.http_request_duration_seconds
          = LastN(arrivals, Min(Len(arrivals), 1000))

\* samples have been dropped from a full buffer, more than once
C9_Witness ==
  /\ metrics_lock = 0
  /\ Len(arrivals) > 1000
  /\ Len(metrics.http_request_duration_seconds) = 1000

\* workers whose request is at one of the positions pcs
At(pcs) == {p \in Procs : conns[p].pc \in pcs}

\* no request is inside record_request_metrics (lines 25-33)
NoneRecording == At({"rrm_lock", "rrm_total", "rrm_append", "rrm_trim"}) = {}

\* C12 as stated: under any interleaving http_requests_total never decreases
\* and, whenever no request is inside record_request_metrics, equals the number
\* of requests whose after_request hook has completed, and the duration buffer
\* length equals min(http_requests_total, 1000).
C12_TotalEqualsCompleted ==
  /\ [][metrics'.http_requests_total >= metrics.http_requests_total]_vars
  /\ [](NoneRecording
        => /\ metrics.http_requests_total = completed
           /\ Len(metrics.http_request_duration_seconds)
                = Min(metrics.http_requests_total, 1000))

\* C12 amended: http_requests_total never decreases and, whenever no request
\* is inside record_request_metrics, equals the number of requests whose call
\* of record_request_metrics has returned (those whose after_request hook has
\* completed plus those still between that call and the end of the hook), and
\* the duration buffer length equals min(http_requests_total, 1000).
C12_TotalEqualsRecorded ==
  /\ [][metrics'.http_requests_total >= metrics.http_requests_total]_vars
  /\ [](NoneRecording
        => /\ metrics.http_requests_total
                = completed + Cardinality(At({"ar_lock", "ar_dec"}))
           /\ Len(metrics.http_request_duration_seconds)
                = Min(metrics.http_requests_total, 1000))

\* two overlapping requests have both been counted and neither has left
\* after_request yet, with more than 1000 requests counted in all
C12_Witness ==
  /\ NoneRecording
  /\ Cardinality(At({"ar_lock", "ar_dec"})) = 2
  /\ metrics.http_requests_total > 1000

\* requests taking every exit path of the student handlers and of healthcheck:
\* 201 and 200, cache hit, cache miss (no entry, or a failing get), 400, 404
\* and 500 (the store raises, or a PUT has no body)
ExitPathRequests(rds) ==
  {NewReq("create_student", 0, ValidBody, {}, None, rds),
   NewReq("create_student", 0, None, {}, None, rds),
   NewReq("create_student", 0, ValidBody, {}, Some("IntegrityError"), rds),
   NewReq("get_students", 0, None, {}, None, rds),
   NewReq("get_students", 0, None, {"get"}, None, rds),
   NewReq("get_students", 0, None, {"get"}, Some("OperationalError"), rds),
   NewReq("update_student", 1, ValidBody, {}, None, rds),
   NewReq("update_student", 1, None, {}, None, rds),
   NewReq("update_student", 1, ValidBody, {}, Some("OperationalError"), rds),
   NewReq("delete_student", 1, None, {"keys"}, None, rds),
   NewReq("delete_student", 1, None, {}, Some("OperationalError"), rds),
   NewReq("healthcheck", 0, None, {}, None, rds),
   NewReq("healthcheck", 0, None, {}, Some("OperationalError"), rds)}
  \cup {NewReq("get_student", i, None, f, None, rds) : i \in Ids, f \in {{}, {"get"}}}
  \cup {NewReq("get_student", 1, None, {"get"}, Some("OperationalError"), rds)}
  \cup {NewReq(op, MaxId, ValidBody, {}, None, rds) : op \in {"update_student", "delete_student"}}

\* the handler a worker is about to enter records one observation for its
\* endpoint, and none for another, whatever request it serves
LatencyObservedOnce ==
  At({"handler"}) # {}
  => \A q \in ExitPathRequests(redis) :
       \A c \in {Run(W, q)} :
         c.w.lat = Observe(REQUEST_LATENCY, EndpointOf(q.op))

\* C13: every invocation of a student handler or of healthcheck records exactly
\* one latency observation for its endpoint before it returns, on every exit
\* path (cache hit, miss, 400, 404, 500); and every request through the
\* blueprint eventually appends a duration sample in after_request, exactly
\* one: the samples ever appended are one per request that got that far.
C13_LatencyAndDurationRecorded ==
  /\ []LatencyObservedOnce
  /\ [](Len(arrivals) = completed + Cardinality(At({"rrm_trim", "ar_lock", "ar_dec"})))
  /\ \A p \in Procs : (conns[p].pc = "br_lock") ~> (conns[p].pc = "rrm_trim")

\* over a warm cache two requests have gone through both hooks, each leaving
\* its sample
C13_Witness ==
  /\ cache[IdKey(1)] # None
  /\ completed = 2
  /\ Len(arrivals) = 2
  /\ At({"idle"}) = Procs

\* C14: GET /ready returns 503 and sets the database_connections gauge to 0
\* whenever the store is unreachable, and returns 200 and sets the gauge to 1
\* whenever it is reachable, with the cache backend configured or not and
\* whatever the cache holds.
C14_ReadyFollowsStore ==
  [][\A p \in Procs :
       (conns[p].pc = "ready_set" /\ conns'[p].pc # "ready_set")
       => \A c \in {readiness_check(metrics, conns[p].dberr)} :
            IF conns[p].dberr = None
            THEN c.status = 200 /\ metrics'.database_connections = 1
            ELSE c.status = 503 /\ metrics'.database_connections = 0]_vars

\* with no cache configured, a readiness check whose SELECT 1 raised is about
\* to clear the gauge that an earlier, successful check had set
C14_Witness ==
  /\ ~redis
  /\ metrics.database_connections = 1
  /\ \E p \in Procs : conns[p].pc = "ready_set" /\ conns[p].dberr # None

\* positions of a request whose before_request hook has returned and whose
\* after_request hook has not
BetweenHooks == {"handler", "ready_lock", "ready_set", "me_lock", "me_read",
                 "rrm_lock", "rrm_total", "rrm_append", "rrm_trim", "ar_lock", "ar_dec"}

\* C19: in every reachable state the active_connections gauge is non-negative
\* and, whenever metrics_lock is not held, equals the number of blueprint
\* requests whose before_request hook has run and whose after_request hook has
\* not yet run to its end; it is 0 whenever no request is in flight.
C19_ActiveConnectionsCountsInFlight ==
  /\ metrics.active_connections >= 0
  /\ metrics_lock = 0
     => metrics.active_connections = Cardinality(At(BetweenHooks))
  /\ At({"idle"}) = Procs => metrics.active_connections = 0

\* two requests are between their hooks at once and the lock is free
C19_Witness ==
  /\ metrics_lock = 0
  /\ metrics.active_connections = 2
  /\ Cardinality(At(BetweenHooks)) = 2

====
